---- MODULE Spec2Model ----
(***************************************************************************)
(* A model of wg-conf-gen.py: one run of main() over one input document.   *)
(* The document, the verbosity flag and the prior content of the output    *)
(* directory are chosen in Init; the external collaborators (the wg        *)
(* utility, the filesystem) answer nondeterministically at every call.     *)
(***************************************************************************)
EXTENDS Integers, Sequences, FiniteSets, TLC

\* ------------------------------------------------------------------ bounds
MaxPeers == 3

\* Peer names are the keys of the YAML mapping, hence distinct; the n-th
\* declared peer is called NamePool[n] (declaration order is not sorted order).
NamePool == <<"B", "A", "D", "C", "E">>

\* ------------------------------------------------- library conversions
\* ipaddress.ip_address(s): the literals of the model and their parsed form
\* (family, canonical text).  Anything else raises ValueError.
AddrLits == {"10.0.0.1", "10.0.0.2", "FD00::1"}

ip_address(s) ==
    IF s \notin AddrLits
    THEN [ok |-> FALSE, exc |-> [type |-> "ValueError", msg |-> <<"not an IP address", s>>]]
    ELSE [ok |-> TRUE,
          val |-> CASE s = "10.0.0.1" -> [fam |-> "v4", text |-> "10.0.0.1"]
                    [] s = "10.0.0.2" -> [fam |-> "v4", text |-> "10.0.0.2"]
                    [] s = "FD00::1"  -> [fam |-> "v6", text |-> "fd00::1"]]

\* address.max_prefixlen
max_prefixlen(ip) == IF ip.fam = "v4" THEN 32 ELSE 128

\* int(s) on the scalars of the model; anything else raises ValueError.
IntLits == {"24", "024", "32", "33", "64", "-1", "51820", "51821"}

int(s) ==
    IF s \notin IntLits
    THEN [ok |-> FALSE, exc |-> [type |-> "ValueError", msg |-> <<"invalid literal for int()", s>>]]
    ELSE [ok |-> TRUE,
          val |-> CASE s = "24" -> 24 [] s = "024" -> 24 [] s = "32" -> 32
                    [] s = "33" -> 33 [] s = "64" -> 64  [] s = "-1" -> 0 - 1
                    [] s = "51820" -> 51820 [] s = "51821" -> 51821]

\* ipaddress.ip_network(s) (strict): network address and prefix length.
\* A bare address is a host network, a dotted netmask is converted to a
\* length, and an address with host bits set raises ValueError.
NetLits == {"192.168.1.0/24", "192.168.1.0/255.255.255.0", "10.0.0.1/32", "10.0.0.2"}

ip_network(s) ==
    IF s \notin NetLits
    THEN [ok |-> FALSE, exc |-> [type |-> "ValueError", msg |-> <<"not a network", s>>]]
    ELSE [ok |-> TRUE,
          val |-> CASE s = "192.168.1.0/24"            -> [net |-> "192.168.1.0", prefixlen |-> 24]
                    [] s = "192.168.1.0/255.255.255.0" -> [net |-> "192.168.1.0", prefixlen |-> 24]
                    [] s = "10.0.0.1/32"               -> [net |-> "10.0.0.1", prefixlen |-> 32]
                    [] s = "10.0.0.2"                  -> [net |-> "10.0.0.2", prefixlen |-> 32]]

\* str(network)
StrNetwork(n) == n.net \o "/" \o ToString(n.prefixlen)

\* A string of the input is a sequence of tokens; "/" is a token of its own.
\* s.split("/"): the segments between the separators, each joined to a string.
RECURSIVE split(_)
split(toks) ==
    IF toks = <<>> THEN <<"">>
    ELSE LET init == split(SubSeq(toks, 1, Len(toks) - 1))
             last == toks[Len(toks)]
         IN  IF last = "/"
             THEN Append(init, "")
             ELSE [init EXCEPT ![Len(init)] = @ \o last]

\* The text of a tokenised string.
RECURSIVE Text(_)
Text(toks) == IF toks = <<>> THEN "" ELSE toks[1] \o Text(Tail(toks))

\* ------------------------------------------------------------ exceptions
NoErr == [type |-> "none", msg |-> <<>>]

KeyError(m) == [ok |-> FALSE, exc |-> [type |-> "KeyError", msg |-> m]]

\* ------------------------------------------------------- class WgPeer
\* The loop over data_dict['routes']: the first invalid route raises KeyError.
RECURSIVE ParseRoutes(_)
ParseRoutes(routes) ==
    IF routes = <<>> THEN [ok |-> TRUE, val |-> <<>>]
    ELSE LET init == ParseRoutes(SubSeq(routes, 1, Len(routes) - 1))
             route == routes[Len(routes)]
             net == ip_network(route)
         IN  IF ~init.ok THEN init
             ELSE IF ~net.ok THEN KeyError(<<"IP Route is invalid", route>>)
             ELSE [ok |-> TRUE, val |-> Append(init.val, net.val)]

\* The loop over ips: each entry becomes the tuple (address, subnet_mask).
RECURSIVE ParseIps(_)
ParseIps(ips) ==
    IF ips = <<>> THEN [ok |-> TRUE, val |-> <<>>]
    ELSE LET init == ParseIps(SubSeq(ips, 1, Len(ips) - 1))
             ip == ips[Len(ips)]
             elements == split(ip)
             address == ip_address(elements[1])
             subnet_mask == int(elements[2])
         IN  IF ~init.ok THEN init
             ELSE IF Len(elements) # 2
                  THEN KeyError(<<"Address is missing the subnet mask", Text(ip)>>)
             ELSE IF ~address.ok THEN address
             ELSE IF ~subnet_mask.ok THEN subnet_mask
             ELSE [ok |-> TRUE, val |-> Append(init.val, <<address.val, subnet_mask.val>>)]

\* WgPeer.__init__(name, data_dict): the peer, or the exception it raises.
\* data_dict is a function whose domain is the set of keys present.
WgPeerInit(name, data_dict) ==
    LET has(k) == k \in DOMAIN data_dict
        port == int(data_dict["endpoint_port"])
        routes == IF has("routes") /\ data_dict["routes"] # <<>>
                  THEN ParseRoutes(data_dict["routes"])
                  ELSE [ok |-> TRUE, val |-> <<>>]
        wg_ips == ParseIps(data_dict["wg_ips"])
    IN  IF ~has("endpoint_host") THEN KeyError(<<"endpoint_host">>)
        ELSE IF ~has("endpoint_port") THEN KeyError(<<"endpoint_port">>)
        ELSE IF ~port.ok THEN port
        ELSE IF ~has("private_key") THEN KeyError(<<"private_key">>)
        ELSE IF ~routes.ok THEN routes
        ELSE IF ~has("wg_ips") THEN KeyError(<<"wg_ips">>)
        ELSE IF data_dict["wg_ips"] = <<>>
             THEN KeyError(<<"No IPs specified in wg_ips dictionary">>)
        ELSE IF ~wg_ips.ok THEN wg_ips
        ELSE [ok |-> TRUE,
              val |-> [name |-> name,
                       endpoint_host |-> data_dict["endpoint_host"],
                       endpoint_port |-> port.val,
                       private_key |-> data_dict["private_key"],
                       routes |-> routes.val,
                       wg_ips |-> wg_ips.val]]

\* What `wg pubkey` prints for a private key when it succeeds.
WgPubkey(private_key) == "pub(" \o private_key \o ")"

\* A comma-terminated list of items, as the rendering loops build it.
RECURSIVE CommaList(_)
CommaList(items) ==
    IF items = <<>> THEN <<>> ELSE <<items[1], ",">> \o CommaList(Tail(items))

\* text[:-1]: the text without its last token.
DropLast(toks) == SubSeq(toks, 1, Len(toks) - 1)

\* The items of a list without repetitions (first occurrences kept).
RECURSIVE Dedup(_)
Dedup(items) ==
    IF items = <<>> THEN <<>>
    ELSE LET init == Dedup(SubSeq(items, 1, Len(items) - 1))
             last == items[Len(items)]
         IN  IF \E k \in 1..Len(init) : init[k] = last THEN init ELSE Append(init, last)

\* Variant of generate_peer_block that collects AllowedIPs without repetitions.
generate_peer_block_dedup(self, public_key) ==
    [kind |-> "Peer",
     label |-> self.name,
     PublicKey |-> public_key,
     Endpoint |-> self.endpoint_host \o ":" \o ToString(self.endpoint_port),
     AllowedIPs |->
        DropLast(CommaList(Dedup(
            [k \in 1..Len(self.wg_ips) |->
                self.wg_ips[k][1].text \o "/" \o ToString(max_prefixlen(self.wg_ips[k][1]))]
            \o [k \in 1..Len(self.routes) |-> StrNetwork(self.routes[k])]))),
     PersistentKeepalive |-> 60]

\* WgPeer.generate_peer_block, given the value self.public_key returned.
generate_peer_block(self, public_key) ==
    [kind |-> "Peer",
     label |-> self.name,
     PublicKey |-> public_key,
     Endpoint |-> self.endpoint_host \o ":" \o ToString(self.endpoint_port),
     AllowedIPs |->
        DropLast(CommaList(
            [k \in 1..Len(self.wg_ips) |->
                self.wg_ips[k][1].text \o "/" \o ToString(max_prefixlen(self.wg_ips[k][1]))]
            \o [k \in 1..Len(self.routes) |-> StrNetwork(self.routes[k])])),
     PersistentKeepalive |-> 60]

\* Variant of generate_self_block that renders every address at max_prefixlen.
generate_self_block_hostprefix(self, public_key) ==
    [kind |-> "Interface",
     Address |->
        DropLast(CommaList(
            [k \in 1..Len(self.wg_ips) |->
                self.wg_ips[k][1].text \o "/" \o ToString(max_prefixlen(self.wg_ips[k][1]))])),
     PrivateKey |-> self.private_key,
     PublicKeyComment |-> public_key,
     ListenPort |-> self.endpoint_port]

\* WgPeer.generate_self_block, given the value self.public_key returned.
generate_self_block(self, public_key) ==
    [kind |-> "Interface",
     Address |->
        DropLast(CommaList(
            [k \in 1..Len(self.wg_ips) |->
                self.wg_ips[k][1].text \o "/" \o ToString(self.wg_ips[k][2])])),
     PrivateKey |-> self.private_key,
     PublicKeyComment |-> public_key,
     ListenPort |-> self.endpoint_port]

\* ------------------------------------------------------------- inputs
\* Raw wg_ips entries (tokenised strings).
IpA      == <<"10.0.0.1", "/", "24">>
IpB      == <<"10.0.0.2", "/", "24">>
IpB0     == <<"10.0.0.2", "/", "024">>
IpV6     == <<"FD00::1", "/", "64">>
IpWide   == <<"10.0.0.1", "/", "33">>
IpNoMask == <<"10.0.0.1">>
IpBadLen == <<"10.0.0.1", "/", "abc">>
IpBadLit == <<"10.0.0.300", "/", "24">>

Base(host, port, key) ==
    [endpoint_host |-> host, endpoint_port |-> port, private_key |-> key]

\* Peer records that WgPeer accepts.
ValidRecords ==
    { Base("a.example", "51820", "kA") @@ [wg_ips |-> <<IpA>>],
      Base("b.example", "51821", "kB")
        @@ [wg_ips |-> <<IpB>>, routes |-> <<"192.168.1.0/24">>],
      Base("c.example", "51820", "kC")
        @@ [wg_ips |-> <<IpV6, IpB0, IpA>>,
            routes |-> <<"10.0.0.1/32", "192.168.1.0/255.255.255.0", "10.0.0.2", "10.0.0.1/32">>],
      Base("d.example", "51821", "kD") @@ [wg_ips |-> <<IpWide>>, routes |-> <<>>] }

\* Peer records that WgPeer rejects, one per validation rule.
InvalidRecords ==
    { [endpoint_port |-> "51820", private_key |-> "kA", wg_ips |-> <<IpA>>],
      Base("a.example", "abc", "kA") @@ [wg_ips |-> <<IpA>>],
      Base("a.example", "51820", "kA"),
      Base("a.example", "51820", "kA") @@ [wg_ips |-> <<>>],
      Base("a.example", "51820", "kA") @@ [wg_ips |-> <<IpA, IpNoMask>>],
      Base("a.example", "51820", "kA") @@ [wg_ips |-> <<IpA, IpBadLen>>],
      Base("a.example", "51820", "kA") @@ [wg_ips |-> <<IpBadLit>>],
      Base("a.example", "51820", "kA")
        @@ [wg_ips |-> <<IpA>>, routes |-> <<"192.168.1.0/24", "192.168.1.1/24">>] }

Records == ValidRecords \cup InvalidRecords

\* The value of the 'peers' key: an ordered mapping, here the records in
\* declaration order (the n-th is named NamePool[n]).
PeerDefs == UNION {[1..n -> Records] : n \in 1..MaxPeers}

\* Documents: unparsable YAML, a mapping without 'peers', an empty 'peers',
\* or a 'peers' mapping.
Documents ==
    {[shape |-> sh, peers |-> <<>>] : sh \in {"badyaml", "nokey", "empty"}}
    \cup {[shape |-> "peers", peers |-> ps] : ps \in PeerDefs}

PeerName(n) == NamePool[n]
FileName(n) == PeerName(n) \o ".conf"

\* A file left in output_configs by an earlier run.
Stale == <<[kind |-> "stale"]>>

\* The output directory before the run: absent, empty, or holding a stale
\* file for every peer of the document.
InitialDirs(d) ==
    { [dir |-> FALSE, files |-> <<>>],
      [dir |-> TRUE,  files |-> <<>>],
      [dir |-> TRUE,  files |-> [n \in 1..Len(d.peers) |-> Stale]] }

\* -------------------------------------------------------------- state
VARIABLES
    doc,      \* the content of CONFIG_FILE
    fs0,      \* output_configs before the run
    fs,       \* output_configs now: dir exists, files[n] is the content of FileName(n)
    verbose,  \* args.verbose
    pc,       \* position of the run
    peers,    \* the list parse_config builds
    i,        \* index of `peer` in the loop of logic
    j,        \* position of `other_peer` in the filtered list
    err,      \* the exception in flight or handled by main
    uncaught, \* the exception that leaves main, if any
    exitCode, \* the exit status of the process, -1 while running
    stdout,   \* lines printed
    wgLog     \* invocations of the wg utility

vars == <<doc, fs0, fs, verbose, pc, peers, i, j, err, uncaught, exitCode, stdout, wgLog>>

Init ==
    /\ doc \in Documents
    /\ fs0 \in InitialDirs(doc)
    /\ fs = fs0
    /\ verbose = FALSE
    /\ pc = "args"
    /\ peers = <<>>
    /\ i = 0
    /\ j = 0
    /\ err = NoErr
    /\ uncaught = NoErr
    /\ exitCode = 0 - 1
    /\ stdout = <<>>
    /\ wgLog = <<>>

\* ------------------------------------------------------------ actions
\* Variant of Raise in which the peer loop of logic() notes a failure and
\* goes on with the next peer.
RaiseAndContinue(e) ==
    /\ err' = e
    /\ IF pc \in {"open", "self", "peers"} /\ i < Len(peers)
       THEN /\ pc' = "open"
            /\ i' = i + 1
            /\ UNCHANGED j
       ELSE /\ pc' = "except"
            /\ UNCHANGED <<i, j>>

\* An exception raised inside logic(): it unwinds to the handler of main.
Raise(e) ==
    /\ pc' = "except"
    /\ err' = e
    /\ UNCHANGED <<i, j>>

OSError(what) == [type |-> "OSError", msg |-> <<what>>]

\* parse_args(): the flag is read; argparse ends the process with status 2
\* on a bad command line, before the try block of main.
ParseArgs ==
    /\ pc = "args"
    /\ \E usage \in BOOLEAN, v \in BOOLEAN :
          IF usage
          THEN /\ verbose' = v
               /\ pc' = "logic"
               /\ UNCHANGED exitCode
          ELSE /\ pc' = "exited"
               /\ exitCode' = 2
               /\ UNCHANGED verbose
    /\ UNCHANGED <<doc, fs0, fs, peers, i, j, err, uncaught, stdout, wgLog>>

\* logic() up to the peer loop of parse_config: the file is opened and read,
\* the YAML is loaded and the top-level 'peers' key is checked.
LoadConfig ==
    /\ pc = "logic"
    /\ \E readable \in BOOLEAN :
          IF ~readable THEN Raise(OSError("CONFIG_FILE"))
          ELSE IF doc.shape = "badyaml"
               THEN Raise([type |-> "YAMLError", msg |-> <<"cannot load">>])
          ELSE IF doc.shape \in {"nokey", "empty"}
               THEN Raise([type |-> "ConfigParseError",
                           msg |-> <<"Definition file missing 'peers' top-level directive">>])
          ELSE /\ pc' = "build"
               /\ UNCHANGED <<i, j, err>>
    /\ UNCHANGED <<doc, fs0, fs, verbose, peers, uncaught, exitCode, stdout, wgLog>>

\* Variant of BuildPeer in which building a peer derives its public key.
BuildPeerEager ==
    /\ pc = "build"
    /\ LET n == Len(peers) + 1
           r == WgPeerInit(PeerName(n), doc.peers[n])
       IN  IF r.ok
           THEN /\ peers' = Append(peers, r.val)
                /\ wgLog' = wgLog \o <<[cmd |-> "--version", file |-> 0, of |-> n],
                                       [cmd |-> "pubkey", file |-> 0, of |-> n]>>
                /\ pc' = IF n = Len(doc.peers) THEN "mkdir" ELSE "build"
                /\ UNCHANGED <<i, j, err>>
           ELSE /\ UNCHANGED <<peers, wgLog>>
                /\ IF r.exc.type = "KeyError"
                   THEN Raise([type |-> "ConfigParseError",
                               msg |-> <<"Failed to parse peer", PeerName(n), r.exc.msg>>])
                   ELSE Raise(r.exc)
    /\ UNCHANGED <<doc, fs0, fs, verbose, uncaught, exitCode, stdout>>

\* One iteration of the loop of parse_config: build the next peer; a
\* KeyError is wrapped with the peer name, anything else propagates.
BuildPeer ==
    /\ pc = "build"
    /\ LET n == Len(peers) + 1
           r == WgPeerInit(PeerName(n), doc.peers[n])
       IN  IF r.ok
           THEN /\ peers' = Append(peers, r.val)
                /\ pc' = IF n = Len(doc.peers) THEN "mkdir" ELSE "build"
                /\ UNCHANGED <<i, j, err>>
           ELSE /\ UNCHANGED peers
                /\ IF r.exc.type = "KeyError"
                   THEN Raise([type |-> "ConfigParseError",
                               msg |-> <<"Failed to parse peer", PeerName(n), r.exc.msg>>])
                   ELSE Raise(r.exc)
    /\ UNCHANGED <<doc, fs0, fs, verbose, uncaught, exitCode, stdout, wgLog>>

\* os.makedirs(out_dir, exist_ok=True)
MakeDirs ==
    /\ pc = "mkdir"
    /\ \E done \in BOOLEAN :
          IF done
          THEN /\ fs' = [fs EXCEPT !.dir = TRUE]
               /\ pc' = "open"
               /\ i' = 1
               /\ UNCHANGED <<j, err>>
          ELSE /\ Raise(OSError("output_configs"))
               /\ UNCHANGED fs
    /\ UNCHANGED <<doc, fs0, verbose, peers, uncaught, exitCode, stdout, wgLog>>

\* Variant of OpenFile that opens in append mode: existing content is kept.
OpenFileAppend ==
    /\ pc = "open"
    /\ \E opened \in BOOLEAN :
          IF opened
          THEN /\ fs' = [fs EXCEPT !.files = @ @@ (i :> <<>>)]
               /\ stdout' = Append(stdout, <<"Writing config for", PeerName(i), FileName(i)>>)
               /\ pc' = "self"
               /\ UNCHANGED <<i, j, err>>
          ELSE /\ Raise(OSError(FileName(i)))
               /\ UNCHANGED <<fs, stdout>>
    /\ UNCHANGED <<doc, fs0, verbose, peers, uncaught, exitCode, wgLog>>

\* open(out_file_path, "w"): the file is created or truncated; then the
\* progress line is printed.
OpenFile ==
    /\ pc = "open"
    /\ \E opened \in BOOLEAN :
          IF opened
          THEN /\ fs' = [fs EXCEPT !.files = (i :> <<>>) @@ @]
               /\ stdout' = Append(stdout, <<"Writing config for", PeerName(i), FileName(i)>>)
               /\ pc' = "self"
               /\ UNCHANGED <<i, j, err>>
          ELSE /\ Raise(OSError(FileName(i)))
               /\ UNCHANGED <<fs, stdout>>
    /\ UNCHANGED <<doc, fs0, verbose, peers, uncaught, exitCode, wgLog>>

\* The property WgPeer.public_key of peers[q]: `wg --version` is run, then
\* `wg pubkey`; nothing is kept on the peer.
KeyOutcomes == {"ok", "nowg", "badkey"}

\* Variant of public_key that keeps the derived key on the peer and reuses it.
public_key_cached(q, outcome) ==
    IF "cache" \in DOMAIN peers[q]
    THEN UNCHANGED <<wgLog, peers>>
    ELSE /\ wgLog' = wgLog
                     \o <<[cmd |-> "--version", file |-> i, of |-> q]>>
                     \o (IF outcome = "nowg" THEN <<>>
                         ELSE <<[cmd |-> "pubkey", file |-> i, of |-> q]>>)
         /\ peers' = IF outcome = "ok"
                     THEN [peers EXCEPT ![q] = @ @@ [cache |-> "pub(" \o @.private_key \o ")"]]
                     ELSE peers

public_key(q, outcome) ==
    /\ wgLog' = wgLog
                \o <<[cmd |-> "--version", file |-> i, of |-> q]>>
                \o (IF outcome = "nowg" THEN <<>>
                    ELSE <<[cmd |-> "pubkey", file |-> i, of |-> q]>>)
    /\ peers' = peers

KeyErr(outcome) ==
    IF outcome = "nowg"
    THEN [type |-> "RuntimeError",
          msg |-> <<"'wg' utility not found and needed to calculate public keys">>]
    ELSE [type |-> "CalledProcessError", msg |-> <<"wg pubkey">>]

\* out_file.write(block): the block reaches the file, or the write fails
\* with nothing or a part of the block written.
WriteOutcomes == {"ok", "nothing", "partial"}

Written(n, block, w) ==
    IF w = "ok" THEN [fs EXCEPT !.files[n] = Append(@, block)]
    ELSE IF w = "partial" THEN [fs EXCEPT !.files[n] = Append(@, [kind |-> "partial"])]
    ELSE fs

\* Variant of OtherPeers without the filter.
OtherPeersAll(n) == [k \in 1..Len(peers) |-> k]

\* filter(lambda p, cp=peer: p != cp, peers): the positions of the peers
\* that are not the n-th one (WgPeer compares by identity).
OtherPeers(n) == SelectSeq([k \in 1..Len(peers) |-> k], LAMBDA k : k # n)

\* out_file.write(peer.generate_self_block())
WriteSelfBlock ==
    /\ pc = "self"
    /\ \E outcome \in KeyOutcomes, w \in WriteOutcomes :
          /\ public_key(i, outcome)
          /\ IF outcome # "ok"
             THEN /\ Raise(KeyErr(outcome))
                  /\ UNCHANGED fs
             ELSE /\ fs' = Written(i, generate_self_block(peers[i], WgPubkey(peers[i].private_key)), w)
                  /\ IF w = "ok"
                     THEN /\ pc' = "peers"
                          /\ j' = 1
                          /\ UNCHANGED <<i, err>>
                     ELSE Raise(OSError(FileName(i)))
    /\ UNCHANGED <<doc, fs0, verbose, uncaught, exitCode, stdout>>

\* out_file.write(other_peer.generate_peer_block()) for the next other peer.
WritePeerBlock ==
    /\ pc = "peers"
    /\ j <= Len(OtherPeers(i))
    /\ \E outcome \in KeyOutcomes, w \in WriteOutcomes :
          LET q == OtherPeers(i)[j]
          IN  /\ public_key(q, outcome)
              /\ IF outcome # "ok"
                 THEN /\ Raise(KeyErr(outcome))
                      /\ UNCHANGED fs
                 ELSE /\ fs' = Written(i, generate_peer_block(peers[q], WgPubkey(peers[q].private_key)), w)
                      /\ IF w = "ok"
                         THEN /\ j' = j + 1
                              /\ UNCHANGED <<pc, i, err>>
                         ELSE Raise(OSError(FileName(i)))
    /\ UNCHANGED <<doc, fs0, verbose, uncaught, exitCode, stdout>>

\* The end of the with block: the file is closed and the loop goes on to
\* the next peer, or logic() returns.
CloseFile ==
    /\ pc = "peers"
    /\ j > Len(OtherPeers(i))
    /\ IF i < Len(peers)
       THEN /\ i' = i + 1
            /\ pc' = "open"
       ELSE /\ pc' = "return"
            /\ UNCHANGED i
    /\ UNCHANGED <<doc, fs0, fs, verbose, peers, j, err, uncaught, exitCode, stdout, wgLog>>

\* main() returns 0 and sys.exit passes it on.
MainReturn ==
    /\ pc = "return"
    /\ pc' = "exited"
    /\ exitCode' = 0
    /\ UNCHANGED <<doc, fs0, fs, verbose, peers, i, j, err, uncaught, stdout, wgLog>>

\* Variant of MainExcept whose non-verbose branch falls through to return 0.
MainExceptReturnsZero ==
    /\ pc = "except"
    /\ pc' = "exited"
    /\ IF ~verbose
       THEN /\ stdout' = Append(stdout, <<"ERROR: ", err.msg>>)
            /\ exitCode' = 0
            /\ UNCHANGED uncaught
       ELSE /\ uncaught' = err
            /\ exitCode' = 1
            /\ UNCHANGED stdout
    /\ UNCHANGED <<doc, fs0, fs, verbose, peers, i, j, err, wgLog>>

\* The except clause of main: print and return 2, or re-raise in verbose
\* mode (the interpreter then ends with status 1).
MainExcept ==
    /\ pc = "except"
    /\ pc' = "exited"
    /\ IF ~verbose
       THEN /\ stdout' = Append(stdout, <<"ERROR: ", err.msg>>)
            /\ exitCode' = 2
            /\ UNCHANGED uncaught
       ELSE /\ uncaught' = err
            /\ exitCode' = 1
            /\ UNCHANGED stdout
    /\ UNCHANGED <<doc, fs0, fs, verbose, peers, i, j, err, wgLog>>

Next ==
    \/ ParseArgs
    \/ LoadConfig
    \/ BuildPeer
    \/ MakeDirs
    \/ OpenFile
    \/ WriteSelfBlock
    \/ WritePeerBlock
    \/ CloseFile
    \/ MainReturn
    \/ MainExcept

Spec == Init /\ [][Next]_vars

TypeOK ==
    /\ pc \in {"args", "logic", "build", "mkdir", "open", "self", "peers", "return", "except", "exited"}
    /\ i \in 0..Len(doc.peers)
    /\ Len(peers) <= Len(doc.peers)
    /\ exitCode \in {0 - 1, 0, 1, 2}

\* ------------------------------------------------- vocabulary of the claims
NPeers == Len(doc.peers)

\* The run ended (or is about to end) without an exception.
Returned == pc = "return" \/ (pc = "exited" /\ exitCode = 0)

\* The file of the m-th peer has been written completely and closed.
FileDone(m) == m \in 1..Len(peers) /\ (m < i \/ (m = i /\ Returned))

HasFile(f, m) == m \in DOMAIN f.files

\* The labels of the [Peer] blocks of a file, in file order.
PeerLabels(content) ==
    LET blocks == SelectSeq(content, LAMBDA b : b.kind = "Peer")
    IN  [k \in 1..Len(blocks) |-> blocks[k].label]

\* The entries of a comma-separated line.
Entries(line) == [k \in 1..((Len(line) + 1) \div 2) |-> line[2 * k - 1]]

\* Host prefix length of an address family.
HostPrefix(fam) == IF fam = "v4" THEN 32 ELSE 128

\* A declared wg_ips entry "<address>/<prefix>" of a valid record.
DeclAddr(e) == ip_address(e[1]).val
DeclLen(e) == int(e[3]).val

\* C1: when the document declares n >= 2 peers, every completed file holds
\* exactly one [Peer] block per other peer, none for its own peer, in
\* declaration order.
C1_MeshBlocks ==
    \A m \in 1..NPeers :
        (NPeers >= 2 /\ FileDone(m)) =>
            PeerLabels(fs.files[m]) =
                SelectSeq([k \in 1..NPeers |-> PeerName(k)], LAMBDA x : x # PeerName(m))

C1_Witness ==
    /\ NPeers = 3
    /\ FileDone(2)
    /\ PeerLabels(fs.files[2]) = <<PeerName(1), PeerName(3)>>

\* The self block of the file of the m-th peer has been written.
HasSelfBlock(m) ==
    /\ HasFile(fs, m)
    /\ fs.files[m] # <<>>
    /\ fs.files[m][1].kind = "Interface"

DeclRoutes(q) ==
    IF "routes" \in DOMAIN doc.peers[q] THEN doc.peers[q]["routes"] ELSE <<>>

ExpectedAllowed(q) ==
    [k \in 1..Len(doc.peers[q]["wg_ips"]) |->
        LET e == doc.peers[q]["wg_ips"][k]
        IN  DeclAddr(e).text \o "/" \o ToString(HostPrefix(DeclAddr(e).fam))]
    \o [k \in 1..Len(DeclRoutes(q)) |->
        LET r == ip_network(DeclRoutes(q)[k]).val
        IN  r.net \o "/" \o ToString(r.prefixlen)]

\* C3: the AllowedIPs line of every [Peer] block written for a peer Q lists
\* Q's addresses at host prefix followed by Q's routes at their declared
\* prefix, in input order, duplicates kept.
C3_AllowedIPs ==
    \A m \in DOMAIN fs.files : \A k \in 1..Len(fs.files[m]) :
        LET b == fs.files[m][k]
        IN  b.kind = "Peer" =>
                \A q \in 1..NPeers :
                    PeerName(q) = b.label =>
                        /\ Entries(b.AllowedIPs) = ExpectedAllowed(q)
                        /\ Len(Entries(b.AllowedIPs)) =
                              Len(doc.peers[q]["wg_ips"]) + Len(DeclRoutes(q))

C3_Witness ==
    \E m \in DOMAIN fs.files : \E k \in 1..Len(fs.files[m]) :
        LET b == fs.files[m][k]
        IN  /\ b.kind = "Peer"
            /\ Entries(b.AllowedIPs) =
                  <<"fd00::1/128", "10.0.0.2/32", "10.0.0.1/32",
                    "10.0.0.1/32", "192.168.1.0/24", "10.0.0.2/32", "10.0.0.1/32">>

\* The failure in flight was raised while a peer was being built.
BuildFailed ==
    /\ doc.shape = "peers"
    /\ err # NoErr
    /\ Len(peers) < NPeers
    /\ err # OSError("CONFIG_FILE")

\* C4 as stated: a failure raised while a peer is built surfaces as a
\* ConfigParseError whose message names that peer.
C4_BuildFailuresWrapped ==
    BuildFailed =>
        /\ err.type = "ConfigParseError"
        /\ Len(err.msg) >= 2
        /\ err.msg[2] = PeerName(Len(peers) + 1)

\* C5 as stated: no peer is ever built with a prefix length outside the
\* range of its address family.
C5_PrefixInRange ==
    \A m \in 1..Len(peers) : \A k \in 1..Len(peers[m].wg_ips) :
        LET a == peers[m].wg_ips[k]
        IN  a[2] >= 0 /\ a[2] <= HostPrefix(a[1].fam)

\* The complete document of the m-th peer, from the declaration: the self
\* block, then one block per other peer in declaration order.
ExpectedDoc(m) ==
    <<generate_self_block(peers[m], WgPubkey(peers[m].private_key))>>
    \o [k \in 1..(Len(peers) - 1) |->
          LET q == IF k < m THEN k ELSE k + 1
          IN  generate_peer_block(peers[q], WgPubkey(peers[q].private_key))]

\* Every peer was built and every file is complete.
Succeeded ==
    /\ doc.shape = "peers"
    /\ Len(peers) = NPeers
    /\ \A m \in 1..NPeers : HasFile(fs, m) /\ fs.files[m] = ExpectedDoc(m)

ErrorLines == SelectSeq(stdout, LAMBDA l : l[1] = "ERROR: ")

\* C6: the process ends with status 0 exactly when the run succeeded; a
\* failure in non-verbose mode prints one ERROR line with the message and
\* ends non-zero, a failure in verbose mode leaves main as the original
\* exception and ends non-zero.
C6_ExitCode ==
    pc = "exited" =>
        /\ (exitCode = 0) <=> Succeeded
        /\ (exitCode = 0) => err = NoErr
        /\ (err # NoErr /\ ~verbose) =>
              /\ exitCode # 0
              /\ ErrorLines = << <<"ERROR: ", err.msg>> >>
              /\ stdout[Len(stdout)] = <<"ERROR: ", err.msg>>
              /\ uncaught = NoErr
        /\ (err # NoErr /\ verbose) =>
              /\ exitCode # 0
              /\ uncaught = err
              /\ ErrorLines = <<>>

C6_Witness ==
    /\ pc = "exited"
    /\ err.type = "CalledProcessError"
    /\ ~verbose
    /\ exitCode = 2

\* One step of a run, as C7 requires it.
C7_Step ==
    /\ err # NoErr =>
          /\ pc = "except"
          /\ pc' = "exited"
          /\ fs' = fs
          /\ wgLog' = wgLog
          /\ exitCode' # 0
    /\ (err = NoErr /\ err' # NoErr /\ pc \in {"open", "self", "peers"}) =>
          /\ pc' = "except"
          /\ \A m \in 1..NPeers :
                m > i => /\ HasFile(fs', m) <=> HasFile(fs0, m)
                         /\ HasFile(fs', m) => fs'.files[m] = fs0.files[m]
          /\ \A m \in 1..NPeers :
                m < i => /\ HasFile(fs', m)
                         /\ fs'.files[m] = fs.files[m]
                         /\ fs'.files[m] = ExpectedDoc(m)
    /\ \A a, b \in 1..Len(wgLog') : a # b => wgLog'[a] # wgLog'[b]

\* C7: a failure while the k-th file is generated goes straight to the
\* handler of main and the process ends; the files of later peers are as
\* they were before the run, the files of earlier peers are complete and
\* untouched, and no call of the wg utility is made twice.
C7_FailStop == [][C7_Step]_vars

C7_Witness ==
    /\ pc = "exited"
    /\ err # NoErr
    /\ NPeers = 3
    /\ i = 2
    /\ fs0.files = <<>>
    /\ HasFile(fs, 1) /\ fs.files[1] = ExpectedDoc(1)
    /\ HasFile(fs, 2)
    /\ ~HasFile(fs, 3)

\* Some declared peer is rejected by WgPeer.
InvalidDoc ==
    /\ doc.shape = "peers"
    /\ \E m \in 1..NPeers : ~WgPeerInit(PeerName(m), doc.peers[m]).ok

\* C8: the wg utility is called, and the output directory or a file is
\* touched, only after every declared peer has been built; a document with
\* an invalid peer never gets that far; key-tool failures arise only in
\* generation.
C8_LazyAfterValidation ==
    /\ (wgLog # <<>> \/ fs # fs0) =>
          /\ doc.shape = "peers"
          /\ Len(peers) = NPeers
          /\ pc \notin {"args", "logic", "build"}
    /\ InvalidDoc => (wgLog = <<>> /\ fs = fs0)
    /\ err.type \in {"RuntimeError", "CalledProcessError"} =>
          (i >= 1 /\ Len(peers) = NPeers)

C8_Witness ==
    /\ pc = "exited"
    /\ InvalidDoc
    /\ Len(peers) = 2
    /\ ~fs0.dir
    /\ wgLog = <<>>

\* The `wg pubkey` calls made while the m-th file was generated.
Derivations(m) == SelectSeq(wgLog, LAMBDA c : c.cmd = "pubkey" /\ c.file = m)

C10_PartialFile ==
    /\ pc = "self" => (HasFile(fs, i) /\ fs.files[i] = <<>>)
    /\ pc = "peers" => (HasFile(fs, i) /\ fs.files[i] = SubSeq(ExpectedDoc(i), 1, j))
    /\ err.type \in {"RuntimeError", "CalledProcessError"} =>
          /\ HasFile(fs, i)
          /\ Len(fs.files[i]) < Len(ExpectedDoc(i))
          /\ fs.files[i] = SubSeq(ExpectedDoc(i), 1, Len(fs.files[i]))
          /\ wgLog[Len(wgLog)].of = i => fs.files[i] = <<>>

C10_Witness ==
    /\ pc = "exited"
    /\ err.type = "CalledProcessError"
    /\ NPeers = 3
    /\ HasFile(fs0, i)
    /\ Len(fs.files[i]) = 2

====
